---- MODULE Spec2Model ----
(***************************************************************************)
(* Model of pcg-breaker (src/src/pcg-breaker.rs) and of its table builder  *)
(* (src/src/gen-table.rs).                                                 *)
(*                                                                         *)
(* The source works on the 64-bit member of the PCG-XSH-RR family with a   *)
(* table of 2^27 words.  TLC's integers are 32 bits wide and the table     *)
(* cannot be enumerated, so every definition below is the source's code    *)
(* with the word sizes of the 16-bit member of the same family: 5 rotation *)
(* bits become 3, and every literal of the source that is derived from the *)
(* word sizes is derived here from the scaled sizes by the same formula.   *)
(* The correspondence is                                                   *)
(*                                                                         *)
(*     name            source   model    literal(s) in the source          *)
(*     RotBits            5        3     32 rotations (0..32)              *)
(*     OutBits           32        8     u32                               *)
(*     StateBits         64       16     W<u64>                            *)
(*     XShift            18        5     state >> 18                       *)
(*     LowBits           27        5     >> 27, 0x7ff_ffff, 0x800_0000     *)
(*     HighBits          37       11     0x1f_ffff_ffff                    *)
(*     I32Bits           32       10     i32 (16 times the epsilon range)  *)
(*     A       0x5851F42D4C957F2D  0x7F2D    (A mod 2^StateBits)           *)
(*     A_INV   0xC097EF87329E28A5  0x28A5    (A_INV mod 2^StateBits)       *)
(*     THRESHOLD       1000        4                                       *)
(*     ScanBelow, ScanAbove  2, 10   11, 1   estimate - 2, estimate + 10   *)
(*                                                                         *)
(* The scan window is the one number that is not derived: the source's     *)
(* window is the rank error of its 2^27-entry table, the model's is the    *)
(* rank error of the 32-entry table of the 16-bit member.                  *)
(***************************************************************************)
EXTENDS Integers, Sequences, FiniteSets, TLC

RotBits == 3
OutBits == 8
StateBits == 16
XShift == 5
I32Bits == 10
LowBits == OutBits - RotBits
HighBits == StateBits - LowBits

Pow2(n) == 2 ^ n

\* F applied to the value of e.  TLC evaluates an operator's argument anew at
\* every use; binding it as the element of a one-element set evaluates it once.
Eval(e, F(_)) == CHOOSE r \in {F(x) : x \in {e}} : TRUE

Eval2(e1, e2, F(_, _)) == CHOOSE r \in {F(x, y) : x \in {e1}, y \in {e2}} : TRUE

(* ------------------------------------------------------------------ *)
(* std::num::Wrapping<u64>, u32 and i32 arithmetic                     *)
(* ------------------------------------------------------------------ *)

\* The value of a Wrapping<u64>: reduction modulo 2^StateBits.
Wrap(x) == x % Pow2(StateBits)

Add(a, b) == Wrap(a + b)

Sub(a, b) == Wrap(a - b)

Neg(a) == Wrap(0 - a)

\* Wrapping multiplication, split in half words so that no intermediate
\* product leaves the range of TLC's integers.
MulHalves(a, b, half) ==
    Wrap((a % half) * b + (((a \div half) * (b % half)) % half) * half)

Mul(a, b) == Eval2(a, b, LAMBDA x, y : MulHalves(x, y, Pow2(StateBits \div 2)))

Shr(a, k) == a \div Pow2(k)

Shl(a, k) == Wrap(a * Pow2(k))

RECURSIVE XorBits(_, _)
XorBits(a, b) ==
    IF a = 0 THEN b
    ELSE IF b = 0 THEN a
    ELSE ((a + b) % 2) + 2 * XorBits(a \div 2, b \div 2)

BitXor(a, b) == Eval2(a, b, LAMBDA x, y : XorBits(x, y))

RECURSIVE AndBits(_, _)
AndBits(a, b) ==
    IF a = 0 \/ b = 0 THEN 0
    ELSE ((a % 2) * (b % 2)) + 2 * AndBits(a \div 2, b \div 2)

BitAnd(a, b) == Eval2(a, b, LAMBDA x, y : AndBits(x, y))

RECURSIVE OrBits(_, _)
OrBits(a, b) ==
    IF a = 0 THEN b
    ELSE IF b = 0 THEN a
    ELSE (IF a % 2 = 1 \/ b % 2 = 1 THEN 1 ELSE 0) + 2 * OrBits(a \div 2, b \div 2)

BitOr(a, b) == Eval2(a, b, LAMBDA x, y : OrBits(x, y))

\* u32::rotate_right and u32::rotate_left.
rotate_right(x, r) ==
    Eval2(x, r % OutBits,
          LAMBDA v, k : (v \div Pow2(k)) + (v % Pow2(k)) * Pow2(OutBits - k))

rotate_left(x, r) ==
    Eval2(x, r % OutBits,
          LAMBDA v, k : (v % Pow2(OutBits - k)) * Pow2(k) + (v \div Pow2(OutBits - k)))

\* `x as u32`: the low OutBits bits.
AsU32(x) == x % Pow2(OutBits)

\* `x as i32` of a word: the low I32Bits bits, read as two's complement.
AsI32(x) ==
    Eval(x % Pow2(I32Bits),
         LAMBDA t : IF t >= Pow2(I32Bits - 1) THEN t - Pow2(I32Bits) ELSE t)

\* i32 addition as the release build computes it (the debug build panics
\* where this wraps).
I32Add(a, b) == AsI32(a + b)

I32Max(a, b) == Eval2(a, b, LAMBDA x, y : IF x >= y THEN x ELSE y)

I32Min(a, b) == Eval2(a, b, LAMBDA x, y : IF x <= y THEN x ELSE y)

\* `x as u64` of an i32: sign extension.
I32AsU64(x) == Wrap(x)

\* 0x7ff_ffff, 0x800_0000 (= 134_217_728) and 0x1f_ffff_ffff.
LowMask == Pow2(LowBits) - 1
LowSpan == Pow2(LowBits)
HighMask == Pow2(HighBits) - 1

(* ------------------------------------------------------------------ *)
(* pcg-breaker.rs: constants and the output function                   *)
(* ------------------------------------------------------------------ *)

\* 6364136223846793005 = 0x5851F42D4C957F2D, in bytes, low byte first.
ABytes == <<45, 127, 149, 76, 45, 244, 81, 88>>

\* 13877824140714322085 = 0xC097EF87329E28A5, in bytes, low byte first.
AInvBytes == <<165, 40, 158, 50, 135, 239, 151, 192>>

\* The low StateBits bits of a constant given in bytes.
LowWord(bytes) == (bytes[1] + 256 * bytes[2]) % Pow2(StateBits)

A == LowWord(ABytes)

A_INV == LowWord(AInvBytes)

xsh_rr_of(state) ==
    rotate_right(AsU32(Shr(BitXor(Shr(state, XShift), state), LowBits)),
                 Shr(state, StateBits - RotBits))

compute_xsh_rr(state) == Eval(state, LAMBDA s : xsh_rr_of(s))

\* The three `state |= ...` of invert_xsh_rr.
invert_top(state, recovered) ==
    BitOr(state, Shl(Shr(recovered, OutBits - (XShift - RotBits)), StateBits - XShift))

invert_middle(state, recovered) ==
    BitOr(state,
          Shl(BitAnd(BitXor(Shr(recovered, 1), Shr(state, StateBits - XShift)),
                     Pow2(XShift) - 1),
              LowBits + 1))

invert_bit_omitted(state, recovered) == state

invert_bit(state, recovered) ==
    BitOr(state,
          Shl(BitAnd(BitXor(recovered, Shr(state, LowBits + XShift)), 1), LowBits))

invert_xsh_rr(rotation, output) ==
    Eval2(Shl(rotation, StateBits - RotBits), rotate_left(output, rotation),
          LAMBDA state0, recovered :
            Eval(invert_top(state0, recovered),
                 LAMBDA state1 :
                    Eval(invert_middle(state1, recovered),
                         LAMBDA state2 : invert_bit(state2, recovered))))

(* ------------------------------------------------------------------ *)
(* Option<T>: None is <<>>, Some(x) is <<x>>                           *)
(* ------------------------------------------------------------------ *)

None == <<>>

Some(x) == <<x>>

IsSome(o) == o # <<>>

Unwrap(o) == o[1]

(* ------------------------------------------------------------------ *)
(* gen-table.rs                                                        *)
(* ------------------------------------------------------------------ *)

\* The loop body of main: the word pushed for zeta.
table_entry(zeta) ==
    Eval(Mul(A, Neg(zeta)),
         LAMBDA product :
            BitOr(Shl(Neg(Shr(product, LowBits)), LowBits), BitAnd(product, LowMask)))

\* Vec::sort_unstable on u64: the ascending arrangement of the same words.
sorted_of(t) ==
    [i \in 1..Len(t) |->
        CHOOSE e \in {t[j] : j \in DOMAIN t} :
            /\ Cardinality({j \in DOMAIN t : t[j] < e}) < i
            /\ i <= Cardinality({j \in DOMAIN t : t[j] <= e})]

sort_unstable_skipped(t) == t

sort_unstable(t) == Eval(t, LAMBDA v : sorted_of(v))

(* ------------------------------------------------------------------ *)
(* pcg-breaker.rs: LookupTable                                         *)
(* ------------------------------------------------------------------ *)

\* The window scan_table reads around its estimate (source: 2 below, 10 above).
ScanBelow == 11
ScanAbove == 1

\* for entry in &self.table[lo..=hi]: the first entry whose key is n2.
scan_window_narrow(tbl, lo, hi, n2) ==
    Eval({i \in (lo + 1)..hi : Shr(tbl[i + 1], LowBits) = n2},
         LAMBDA found :
            IF found = {} THEN None
            ELSE Some(BitAnd(tbl[(CHOOSE i \in found : \A j \in found : i <= j) + 1],
                             LowMask)))

scan_window(tbl, lo, hi, n2) ==
    Eval({i \in lo..hi : Shr(tbl[i + 1], LowBits) = n2},
         LAMBDA found :
            IF found = {} THEN None
            ELSE Some(BitAnd(tbl[(CHOOSE i \in found : \A j \in found : i <= j) + 1],
                             LowMask)))

scan_table(tbl, n) ==
    Eval(BitAnd(n, HighMask),
         LAMBDA n2 :
            Eval(Shr(n2, HighBits - LowBits),
                 LAMBDA estimate :
                    scan_window(tbl, I32Max(estimate - ScanBelow, 0),
                                I32Min(estimate + ScanAbove, LowMask), n2)))

query_all_four(tbl, n) ==
    Eval(scan_table(tbl, n),
      LAMBDA direct :
        IF IsSome(direct) THEN Some(Unwrap(direct))
        ELSE Eval(scan_table(tbl, Neg(n)),
          LAMBDA negated :
            IF IsSome(negated) THEN Some(Neg(Unwrap(negated)))
            ELSE Eval(scan_table(tbl, Add(1, n)),
              LAMBDA high :
                IF IsSome(high) THEN Some(Sub(Unwrap(high), LowSpan))
                ELSE Eval(scan_table(tbl, Sub(1, n)),
                  LAMBDA combined :
                    IF IsSome(combined) THEN Some(Sub(LowSpan, Unwrap(combined)))
                    ELSE None))))

\* The four probes of query, in order; n is a value.
query_of(tbl, n) ==
    Eval(scan_table(tbl, n),
      LAMBDA direct :
        IF IsSome(direct) THEN Some(Unwrap(direct))
        ELSE Eval(scan_table(tbl, Neg(n)),
          LAMBDA negated :
            IF IsSome(negated) THEN Some(Neg(Unwrap(negated)))
            ELSE IF n = 1 THEN None
            ELSE Eval(scan_table(tbl, Add(1, n)),
              LAMBDA high :
                IF IsSome(high) THEN Some(Sub(Unwrap(high), LowSpan))
                ELSE IF n = Neg(1) THEN None
                ELSE Eval(scan_table(tbl, Sub(1, n)),
                  LAMBDA combined :
                    IF IsSome(combined) THEN Some(Sub(LowSpan, Unwrap(combined)))
                    ELSE None))))

query(tbl, n) == Eval(n, LAMBDA v : query_of(tbl, v))

(* ------------------------------------------------------------------ *)
(* pcg-breaker.rs: Predictor                                           *)
(* ------------------------------------------------------------------ *)

\* Result<T>: Err is the error "output sequence not produced by PCG-XSH-RR".
Err == [ok |-> FALSE]

Ok(v) == [ok |-> TRUE, value |-> v]

\* The (state, inc) pair the code rebuilds from a triple and one epsilon:
\* sj, sk, increment and the advanced state (lines 259-264, 270-275,
\* 200-208, 212-220 and 237-245 are this computation).
full_state_of(sj, sk) ==
    Eval(BitOr(Sub(sk, Mul(A, sj)), 1),
         LAMBDA increment : [state |-> Add(Mul(A, sk), increment), inc |-> increment])

full_state(sj_star, sk_star, beta, epsilon2) ==
    Eval(I32AsU64(epsilon2),
         LAMBDA e2 :
            Eval2(Add(Shl(sj_star, LowBits), Sub(e2, beta)),
                  Add(Shl(sk_star, LowBits), e2),
                  LAMBDA sj, sk : full_state_of(sj, sk)))

test_state_min_only(sj_star, sk_star, min, max, beta, output) ==
    output = compute_xsh_rr(full_state(sj_star, sk_star, beta, min).state)

test_state(sj_star, sk_star, min, max, beta, output) ==
    IF output = compute_xsh_rr(full_state(sj_star, sk_star, beta, min).state)
    THEN TRUE
    ELSE IF output = compute_xsh_rr(full_state(sj_star, sk_star, beta, I32Add(max, -1)).state)
    THEN TRUE
    ELSE FALSE

\* The key both Predictor::new and submit_next_output form (lines 132, 169).
key_n(si_star, sj_star, sk_star) ==
    BitAnd(Add(Mul(A, Sub(sj_star, si_star)), Sub(sj_star, sk_star)), HighMask)

\* The Predictor built from an accepted rotation guess.
make_predictor(output, sj_star, sk_star, beta, epsilon_min, epsilon_max) ==
    [last_output |-> output, sj_star |-> sj_star, sk_star |-> sk_star,
     beta |-> beta, epsilon_min |-> epsilon_min, epsilon_max |-> epsilon_max]

\* Lines 134-153 and 171-189: the interval for a returned beta, test_state,
\* and the Predictor on success.  base_min and base_max are the ends the
\* beta is added to.
accept(found, base_min, base_max, sj_star, sk_star, output) ==
    IF IsSome(found)
    THEN Eval(Unwrap(found),
           LAMBDA beta :
             Eval2(I32Max(I32Add(base_min, AsI32(beta)), 0),
                   I32Min(I32Add(base_max, AsI32(beta)), LowSpan),
                   LAMBDA epsilon_min, epsilon_max :
                     IF test_state(sj_star, sk_star, epsilon_min, epsilon_max, beta, output)
                     THEN Some(make_predictor(output, sj_star, sk_star, beta,
                                              epsilon_min, epsilon_max))
                     ELSE None))
    ELSE None

\* One iteration of the loop of Predictor::new, the three inverted outputs
\* given: the Predictor it returns, or None when the loop goes on.  The
\* interval starts from beta itself: max(beta, 0) and min(beta + 2^27, 2^27).
new_attempt(tbl, s0_star, s1_star, s2_star, output) ==
    Eval(query(tbl, key_n(s0_star, s1_star, s2_star)),
         LAMBDA found : accept(found, 0, LowSpan, s1_star, s2_star, output))

\* iproduct!(0..32, 0..32, 0..32): the idx-th rotation triple, last fastest.
Rotations == Pow2(RotBits)

star(rot, output) == Shr(invert_xsh_rr(rot, output), LowBits)

new_from(tbl, outs, stars) ==
    Eval({idx \in 0..(Rotations * Rotations * Rotations - 1) :
            IsSome(new_attempt(tbl,
                               stars[1][idx \div (Rotations * Rotations)],
                               stars[2][(idx \div Rotations) % Rotations],
                               stars[3][idx % Rotations],
                               outs[4]))},
         LAMBDA hits :
            IF hits = {} THEN Err
            ELSE Eval(CHOOSE idx \in hits : \A other \in hits : idx <= other,
                      LAMBDA idx :
                        Ok(Unwrap(new_attempt(tbl,
                                              stars[1][idx \div (Rotations * Rotations)],
                                              stars[2][(idx \div Rotations) % Rotations],
                                              stars[3][idx % Rotations],
                                              outs[4])))))

Predictor_new(tbl, outs) ==
    Eval2(outs,
          [k \in 1..3 |-> [rot \in 0..(Rotations - 1) |-> star(rot, outs[k])]],
          LAMBDA o, stars : new_from(tbl, o, stars))

\* One iteration of the loop of submit_next_output; p and output are values.
submit_attempt(tbl, p, output, sk_rot) ==
    Eval(star(sk_rot, p.last_output),
         LAMBDA sk_star :
            Eval(query(tbl, key_n(p.sj_star, p.sk_star, sk_star)),
                 LAMBDA found :
                    accept(found, p.epsilon_min, p.epsilon_max,
                           p.sk_star, sk_star, output)))

submit_from(tbl, p, output) ==
    Eval([r \in 0..(Rotations - 1) |-> submit_attempt(tbl, p, output, r)],
         LAMBDA tried :
            IF \A r \in DOMAIN tried : tried[r] = None THEN Err
            ELSE Ok(Unwrap(tried[CHOOSE r \in DOMAIN tried :
                                    /\ tried[r] # None
                                    /\ \A q \in DOMAIN tried : tried[q] # None => r <= q])))

submit_next_output(tbl, p, output) ==
    Eval2(p, output, LAMBDA pv, ov : submit_from(tbl, pv, ov))

\* One prediction: the output two steps after sk for one epsilon.
predict_one(p, epsilon2) ==
    Eval(full_state(p.sj_star, p.sk_star, p.beta, epsilon2),
         LAMBDA f : compute_xsh_rr(Add(Mul(A, f.state), f.inc)))

predict_future_output(p) ==
    Eval(p, LAMBDA pv : <<predict_one(pv, pv.epsilon_min),
                          predict_one(pv, I32Add(pv.epsilon_max, -1))>>)

\* `(epsilon_max - epsilon_min) as usize`.
remaining_candidate_count(p) == Wrap(I32Add(p.epsilon_max, 0 - p.epsilon_min))

remaining_candidates_inclusive(p) ==
    Eval(p, LAMBDA pv :
        [i \in 1..(IF pv.epsilon_max >= pv.epsilon_min
                   THEN pv.epsilon_max - pv.epsilon_min + 1 ELSE 0) |->
            full_state(pv.sj_star, pv.sk_star, pv.beta, pv.epsilon_min + i - 1)])

remaining_candidates(p) ==
    Eval(p, LAMBDA pv :
        [i \in 1..(IF pv.epsilon_max > pv.epsilon_min
                   THEN pv.epsilon_max - pv.epsilon_min ELSE 0) |->
            full_state(pv.sj_star, pv.sk_star, pv.beta, pv.epsilon_min + i - 1)])

(* ------------------------------------------------------------------ *)
(* State                                                               *)
(* ------------------------------------------------------------------ *)

VARIABLES
    x_pc, x_state, x_output, x_inverse,   \* compute_xsh_rr / invert_xsh_rr on one state
    gt_pc, zeta, gt_table,                \* gen-table's main: loop counter and Vec
    file,                                 \* the table file (table.bin)
    q_n, q_scan, q_query,                 \* one LookupTable query and its answers
    pc,                                   \* run(): boot, loop, recovered, failed, eof
    recovery,                             \* args.recovery
    seed, gen_state,                      \* the target generator: its seed, its state
    foreign,                              \* outputs read so far that the target did not produce
    predictor,                            \* Predictor: last_output and the Triple
    remaining,                            \* remaining_candidates
    outputs,                              \* outputs
    recovered,                            \* the (state, inc) run() prints
    prediction,                           \* the pair display_predictions last printed
    submits                               \* calls of submit_next_output so far

vars == <<x_pc, x_state, x_output, x_inverse, gt_pc, zeta, gt_table, file,
          q_n, q_scan, q_query, pc, recovery, seed, gen_state, foreign,
          predictor, remaining, outputs, recovered, prediction, submits>>

xvars == <<x_pc, x_state, x_output, x_inverse>>
gtvars == <<gt_pc, zeta, gt_table>>
qvars == <<q_n, q_scan, q_query>>
runvars == <<pc, recovery, seed, gen_state, foreign, predictor, remaining,
             outputs, recovered, prediction, submits>>

NoPredictor == [last_output |-> 0, sj_star |-> 0, sk_star |-> 0, beta |-> 0,
                epsilon_min |-> 0, epsilon_max |-> 0]

XIdle == x_pc = "idle" /\ x_state = 0 /\ x_output = 0 /\ x_inverse = 0

GtIdle == gt_pc = "idle" /\ zeta = 0 /\ gt_table = <<>>

QIdle == q_n = 0 /\ q_scan = None /\ q_query = None

RunIdle ==
    /\ pc = "idle" /\ recovery = FALSE /\ seed = [state |-> 0, inc |-> 1]
    /\ gen_state = 0 /\ foreign = 0 /\ predictor = NoPredictor /\ remaining = <<>>
    /\ outputs = 0 /\ recovered = None /\ prediction = None /\ submits = 0

(* ------------------------------------------------------------------ *)
(* The output function and its inverse, applied to one state           *)
(* ------------------------------------------------------------------ *)

XshInit ==
    /\ x_pc = "start" /\ x_state \in 0..(Pow2(StateBits) - 1)
    /\ x_output = 0 /\ x_inverse = 0
    /\ GtIdle /\ file = <<>> /\ QIdle /\ RunIdle

XshCompute ==
    /\ x_pc = "start"
    /\ x_output' = compute_xsh_rr(x_state)
    /\ x_pc' = "computed"
    /\ UNCHANGED <<x_state, x_inverse, gtvars, file, qvars, runvars>>

XshInvert ==
    /\ x_pc = "computed"
    /\ x_inverse' = invert_xsh_rr(Shr(x_state, StateBits - RotBits), x_output)
    /\ x_pc' = "inverted"
    /\ UNCHANGED <<x_state, x_output, gtvars, file, qvars, runvars>>

XshNext == XshCompute \/ XshInvert

SpecXsh == XshInit /\ [][XshNext]_vars

(* ------------------------------------------------------------------ *)
(* gen-table's main, then LookupTable::open and queries                *)
(* ------------------------------------------------------------------ *)

TableInit ==
    /\ gt_pc = "loop" /\ zeta = 0 /\ gt_table = <<>> /\ file = <<>>
    /\ XIdle /\ QIdle /\ RunIdle

\* for zeta in 0..0x800_0000 { ... table.push(...) }
GenPush ==
    /\ gt_pc = "loop" /\ zeta < LowSpan
    /\ gt_table' = Append(gt_table, table_entry(zeta))
    /\ zeta' = zeta + 1
    /\ UNCHANGED <<gt_pc, xvars, file, qvars, runvars>>

\* table.sort_unstable()
GenSort ==
    /\ gt_pc = "loop" /\ zeta = LowSpan
    /\ gt_table' = sort_unstable(gt_table)
    /\ gt_pc' = "sorted"
    /\ UNCHANGED <<zeta, xvars, file, qvars, runvars>>

\* write("table.bin", ...)
GenWrite ==
    /\ gt_pc = "sorted"
    /\ file' = gt_table
    /\ gt_pc' = "written"
    /\ UNCHANGED <<zeta, gt_table, xvars, qvars, runvars>>

\* LookupTable::open on the written file, then scan_table(n) and query(n).
Lookup ==
    /\ gt_pc = "written"
    /\ \E n \in 0..HighMask :
        /\ q_n' = n
        /\ q_scan' = scan_table(file, n)
        /\ q_query' = query(file, n)
    /\ gt_pc' = "queried"
    /\ UNCHANGED <<zeta, gt_table, xvars, file, runvars>>

TableNext == GenPush \/ GenSort \/ GenWrite \/ Lookup

SpecTable == TableInit /\ [][TableNext]_vars

(* ------------------------------------------------------------------ *)
(* run(): the target generator, the input stream and the main loop     *)
(* ------------------------------------------------------------------ *)

\* const THRESHOLD: usize (source: 1000).
THRESHOLD == 4

\* Longest input stream explored, and most foreign outputs in one stream.
MaxOutputs == 24
MaxForeign == 1

\* The table file the breaker is started with: gen-table's output.
TableBin == sort_unstable([i \in 1..LowSpan |-> table_entry(i - 1)])

\* One step of the target generator, s <- A * s + c.
pcg_step(state, inc) == Add(Mul(A, state), inc)

RECURSIVE pcg_advance(_, _, _)
pcg_advance(state, inc, k) ==
    IF k = 0 THEN state
    ELSE Eval(pcg_step(state, inc), LAMBDA s : pcg_advance(s, inc, k - 1))

\* The i-th output of the target generator, y_i = xsh_rr(s_i).
TargetOutput(i) == compute_xsh_rr(pcg_advance(seed.state, seed.inc, i))

\* The seeds explored: 16-bit states and odd 16-bit increments.
SeedStates == {0, 60059, 65535, 63296, 62335, 51093}
SeedIncs == {1, 3, 23515, 51903, 54883, 56723}

RunInit ==
    /\ pc = "boot"
    /\ recovery \in BOOLEAN
    /\ seed \in [state : SeedStates, inc : SeedIncs]
    /\ gen_state = seed.state
    /\ foreign = 0
    /\ file = TableBin
    /\ predictor = NoPredictor /\ remaining = <<>> /\ outputs = 0
    /\ recovered = None /\ prediction = None /\ submits = 0
    /\ XIdle /\ GtIdle /\ QIdle

\* LookupTable::open, four outputs read, Predictor::new (lines 318-352).
Boot ==
    /\ pc = "boot"
    /\ \E made \in {Predictor_new(file, [i \in 1..4 |-> TargetOutput(i - 1)])} :
          IF made.ok
          THEN /\ predictor' = made.value
               /\ pc' = "loop"
               /\ prediction' = IF recovery THEN None
                                ELSE Some(predict_future_output(made.value))
          ELSE /\ pc' = "failed"
               /\ UNCHANGED <<predictor, prediction>>
    /\ outputs' = 4
    /\ gen_state' = pcg_advance(gen_state, seed.inc, 4)
    /\ UNCHANGED <<recovery, seed, foreign, file, remaining, recovered, submits,
                   xvars, gtvars, qvars>>

\* for _ in 0..outputs - 1 { state = A_INV * (state - inc) }
RECURSIVE rewind(_, _, _)
rewind(state, inc, k) ==
    IF k = 0 THEN state
    ELSE Eval(Mul(A_INV, Sub(state, inc)), LAMBDA s : rewind(s, inc, k - 1))

\* remaining_candidates.retain(...) after every state advanced one step.
advance_all(cands) ==
    [i \in DOMAIN cands |->
        [state |-> pcg_step(cands[i].state, cands[i].inc), inc |-> cands[i].inc]]

retain(cands, output) ==
    Eval(cands, LAMBDA cs : SelectSeq(cs, LAMBDA c : compute_xsh_rr(c.state) = output))

\* The body of `while let Ok(output) = read_output(..)`, streaming branch
\* (lines 368-388).
StreamBranch(output) ==
    \E done \in {submit_next_output(file, predictor, output)} :
       /\ submits' = submits + 1
       /\ IF done.ok
          THEN /\ predictor' = done.value
               /\ pc' = "loop"
               /\ IF recovery /\ remaining_candidate_count(done.value) <= THRESHOLD
                  THEN /\ remaining' = remaining_candidates(done.value)
                       /\ UNCHANGED prediction
                  ELSE /\ UNCHANGED remaining
                       /\ prediction' = IF recovery THEN prediction
                                        ELSE Some(predict_future_output(done.value))
          ELSE /\ pc' = "failed"
               /\ UNCHANGED <<predictor, remaining, prediction>>
       /\ UNCHANGED recovered

\* The explicit branch (lines 389-431).
ExplicitBranch(output) ==
    \E kept \in {retain(advance_all(remaining), output)} :
       /\ remaining' = kept
       /\ IF kept = <<>>
          THEN pc' = "failed" /\ UNCHANGED recovered
          ELSE IF Len(kept) = 1
          THEN /\ pc' = "recovered"
               /\ recovered' = Some([state |-> rewind(kept[1].state, kept[1].inc, outputs),
                                     inc |-> kept[1].inc])
          ELSE pc' = "loop" /\ UNCHANGED recovered
       /\ UNCHANGED <<predictor, prediction, submits>>

\* One iteration of the loop at line 357; `outputs` is incremented first, so
\* the rewind above runs (outputs + 1) - 1 times.
LoopBody(output) ==
    /\ outputs' = outputs + 1
    /\ gen_state' = pcg_step(gen_state, seed.inc)
    /\ IF remaining = <<>> THEN StreamBranch(output) ELSE ExplicitBranch(output)
    /\ UNCHANGED <<recovery, seed, file, xvars, gtvars, qvars>>

\* The next line of input is the target generator's next output.
ReadGenuine ==
    /\ pc = "loop" /\ outputs < MaxOutputs
    /\ foreign' = foreign
    /\ \E output \in {compute_xsh_rr(gen_state)} : LoopBody(output)

\* The outputs test_state accepts for one rotation guess: those of the two
\* ends of the interval (lines 266 and 277).
endpoint_outputs(found, p, sk_star) ==
    IF IsSome(found)
    THEN Eval(Unwrap(found),
           LAMBDA beta :
             {compute_xsh_rr(full_state(p.sk_star, sk_star, beta,
                                        I32Max(I32Add(p.epsilon_min, AsI32(beta)), 0)).state),
              compute_xsh_rr(full_state(p.sk_star, sk_star, beta,
                                        I32Add(I32Min(I32Add(p.epsilon_max, AsI32(beta)),
                                                      LowSpan), -1)).state)})
    ELSE {}

\* The outputs the loop body does not reject in the current state.
Accepted ==
    IF remaining = <<>>
    THEN UNION {Eval(star(r, predictor.last_output),
                     LAMBDA sk_star :
                        endpoint_outputs(query(file, key_n(predictor.sj_star,
                                                           predictor.sk_star, sk_star)),
                                         predictor, sk_star)) :
                r \in 0..(Rotations - 1)}
    ELSE {compute_xsh_rr(pcg_step(remaining[i].state, remaining[i].inc)) :
            i \in DOMAIN remaining}

\* The next line of input is any other 32-bit value.  Every value the loop
\* body rejects leads to the same state, so one rejected value stands for all.
ReadForeign ==
    /\ pc = "loop" /\ outputs < MaxOutputs /\ foreign < MaxForeign
    /\ foreign' = foreign + 1
    /\ \E accepted \in {Accepted} :
        \E output \in (accepted \cup
                       {CHOOSE y \in 0..(Pow2(OutBits) - 1) : y \notin accepted})
                      \ {compute_xsh_rr(gen_state)} :
            LoopBody(output)

\* read_output fails: end of input (lines 434-438).
EndOfInput ==
    /\ pc = "loop"
    /\ pc' = "eof"
    /\ UNCHANGED <<recovery, seed, gen_state, foreign, file, predictor, remaining,
                   outputs, recovered, prediction, submits, xvars, gtvars, qvars>>

Next == Boot \/ ReadGenuine \/ ReadForeign \/ EndOfInput

Spec == RunInit /\ [][Next]_vars

(* ------------------------------------------------------------------ *)
(* Properties                                                          *)
(* ------------------------------------------------------------------ *)

\* The i-th state of the target generator, s_i.
TrueState(i) == pcg_advance(seed.state, seed.inc, i)

\* The width epsilon_max - epsilon_min of a Triple, as a signed number.
Width(p) == p.epsilon_max - p.epsilon_min

\* The (state, inc) pair of the target generator is one of the candidates of
\* the Triple: sk is s_(outputs-2), so its advanced state is s_(outputs-1).
TrueAmongCandidates ==
    \E epsilon \in predictor.epsilon_min..(predictor.epsilon_max - 1) :
        full_state(predictor.sj_star, predictor.sk_star, predictor.beta, epsilon)
            = [state |-> TrueState(outputs - 1), inc |-> seed.inc]

\* A * A_INV modulo 2^64, byte by byte.
RECURSIVE DigitSum(_, _, _, _)
DigitSum(a, b, k, i) ==
    IF i > k THEN 0 ELSE a[i] * b[k + 1 - i] + DigitSum(a, b, k, i + 1)

RECURSIVE ProductBytes(_, _, _, _)
ProductBytes(a, b, k, carry) ==
    IF k > Len(a) THEN <<>>
    ELSE Eval(carry + DigitSum(a, b, k, 1),
              LAMBDA sum : <<sum % 256>> \o ProductBytes(a, b, k + 1, sum \div 256))

\* C1: in recovery mode on the outputs of a generator (s0, c), when the
\* candidate set shrinks to one element the rewound candidate is (s0, c);
\* and A * A_INV = 1 modulo 2^64 (and so modulo 2^StateBits).
C1_RecoveryRoundTrip ==
    /\ ProductBytes(ABytes, AInvBytes, 1, 0) = <<1, 0, 0, 0, 0, 0, 0, 0>>
    /\ Mul(A, A_INV) = 1
    /\ (pc = "recovered" /\ foreign = 0) => recovered = Some(seed)

\* C2: after Predictor::new and after every successful submit_next_output on
\* a prefix of the target generator's outputs, the pair predict_future_output
\* returns contains the generator's next output.
C2_PredictionContainsNext ==
    (pc = "loop" /\ foreign = 0 /\ remaining = <<>>)
        => \E k \in 1..2 : predict_future_output(predictor)[k] = compute_xsh_rr(gen_state)

\* C3: when the target generator's state is among the candidates of the
\* Triple, submit_next_output of the generator's next output returns Ok; and
\* every successful submit_next_output on the generator's outputs leaves a
\* width epsilon_max - epsilon_min no larger than before.
C3_NoFalseNegative ==
    [][(pc = "loop" /\ remaining = <<>> /\ foreign' = 0 /\ outputs' = outputs + 1)
        => /\ TrueAmongCandidates => pc' = "loop"
           /\ pc' = "loop" => Width(predictor') <= Width(predictor)]_vars

\* C3's case: three genuine outputs submitted from a Triple that holds the
\* generator's state, and the interval has shrunk.
C3_Witness ==
    /\ pc = "loop" /\ foreign = 0 /\ submits >= 3 /\ recovery = FALSE
    /\ TrueAmongCandidates
    /\ Width(predictor) < LowSpan - 2

\* C4: invert_xsh_rr(s >> 59, compute_xsh_rr(s)) is s with its low 27 bits
\* cleared, for every state s.
C4_PartialInverse ==
    x_pc = "inverted"
        => /\ x_inverse = x_state - (x_state % LowSpan)
           /\ x_inverse % LowSpan = 0

\* C4's case: a state with low bits set has been through both functions.
C4_Witness == x_pc = "inverted" /\ x_state % LowSpan = LowSpan - 1 /\ x_inverse # 0

\* p = zeta * A, N(zeta) = p >> 27 and beta(zeta) = p AND (2^27 - 1).
N_of(z) == Shr(Mul(z, A), LowBits)

beta_of(z) == Mul(z, A) % LowSpan

\* The table holds exactly the words Words(zeta), zeta in [0, 2^27), once each,
\* ascending.
HoldsExactly(tbl, Words(_)) ==
    /\ Len(tbl) = LowSpan
    /\ \A i \in 1..(Len(tbl) - 1) : tbl[i] < tbl[i + 1]
    /\ \A z \in 0..(LowSpan - 1) : Cardinality({i \in DOMAIN tbl : tbl[i] = Words(z)}) = 1

Present(tbl, key) == \E i \in DOMAIN tbl : Shr(tbl[i], LowBits) = key % Pow2(HighBits)

Stored(tbl, key) ==
    tbl[CHOOSE i \in DOMAIN tbl : Shr(tbl[i], LowBits) = key % Pow2(HighBits)] % LowSpan

\* The answer for the first key present among the probes, in the order
\* N, -N, N + 1, 1 - N, each probe being made only if probed[k] says so.
FirstPresent(tbl, n, probed) ==
    IF probed[1] /\ Present(tbl, n) THEN Some(Stored(tbl, n))
    ELSE IF probed[2] /\ Present(tbl, Neg(n)) THEN Some(Neg(Stored(tbl, Neg(n))))
    ELSE IF probed[3] /\ Present(tbl, Add(1, n)) THEN Some(Sub(Stored(tbl, Add(1, n)), LowSpan))
    ELSE IF probed[4] /\ Present(tbl, Sub(1, n)) THEN Some(Sub(LowSpan, Stored(tbl, Sub(1, n))))
    ELSE None

\* C8 as stated: query(N) answers for the first present key of N, -N, N + 1,
\* 1 - N, and is None exactly when none of the four is present.
C8_QueryAsStated ==
    gt_pc = "queried"
        => /\ q_query = FirstPresent(file, q_n, <<TRUE, TRUE, TRUE, TRUE>>)
           /\ (q_query = None) <=> (\A key \in {q_n, Neg(q_n), Add(1, q_n), Sub(1, q_n)} :
                                        ~Present(file, key))

\* C8, amended: for N # 1 query(N) answers for the first present key of
\* N, -N, N + 1, 1 - N and is None exactly when none is present; for N = 1
\* only N and -N are probed, and the answer is None when neither is present.
C8_QueryAmended ==
    gt_pc = "queried"
        => q_query = FirstPresent(file, q_n, <<TRUE, TRUE, q_n # 1, q_n # 1>>)

\* C8's case: query(1) has answered None although 1 - N = 0 is a key of the
\* table.
C8_Witness ==
    gt_pc = "queried" /\ q_n = 1 /\ q_query = None /\ Present(file, Sub(1, q_n))

C6_EmptiedSetFails ==
    [][/\ (submits' = submits + 1 /\ pc' = "loop") => Width(predictor') >= 1
       /\ (remaining # <<>> /\ outputs' = outputs + 1 /\ remaining' = <<>>)
            => pc' = "failed"]_vars

\* C7: every Triple reached by Predictor::new and successful
\* submit_next_output calls has 0 <= epsilon_min <= epsilon_max <= 2^27.
C7_IntervalInvariant ==
    /\ 0 <= predictor.epsilon_min
    /\ predictor.epsilon_min <= predictor.epsilon_max
    /\ predictor.epsilon_max <= LowSpan

\* C10: once the candidate set is materialized non-empty, every later output
\* only advances and filters it: submit_next_output is not called and the
\* Triple is not touched, the set has at most THRESHOLD entries and does not
\* grow, and the run goes on with two or more candidates, ends recovered with
\* one, fails with none, or ends at end of input.
C10_PhaseOrdering ==
    [][remaining # <<>>
        => /\ submits' = submits /\ predictor' = predictor
           /\ Len(remaining) <= THRESHOLD
           /\ Len(remaining') <= Len(remaining)
           /\ \/ pc' = "eof" /\ remaining' = remaining /\ outputs' = outputs
              \/ pc' = "loop" /\ Len(remaining') >= 2 /\ outputs' = outputs + 1
              \/ pc' = "recovered" /\ Len(remaining') = 1 /\ IsSome(recovered')
              \/ pc' = "failed" /\ remaining' = <<>>]_vars

\* C10's case: explicit steps have been taken and candidates have been
\* filtered out.
C10_Witness ==
    /\ pc = "loop" /\ outputs > submits + 5
    /\ Len(remaining) >= 2 /\ Len(remaining) < Width(predictor)

====
